---- MODULE Spec2Model ----
(***************************************************************************)
(* Model of Raw_Data_Crawling/github/run_filtered.py: the filtered Mend.io *)
(* crawler.  has_allowed_cwe and get_soup are modelled as operators and    *)
(* exercised by their own specifications (SpecFilter, SpecFetch); step_one, *)
(* step_two and main are modelled as one sequential process over a small   *)
(* file system, with process kills and restarts (Spec, SpecTwo, SpecWalk   *)
(* and SpecMain, which differ in the sites and API answers they start on). *)
(***************************************************************************)
EXTENDS Integers, Sequences, FiniteSets, TLC

VARIABLES
    \* has_allowed_cwe under test
    cwe_texts,      \* the argument: a list of texts (each a sequence of characters)
    cwe_ret,        \* "unset", or the returned "True"/"False"
    \* get_soup under test
    f_attempt,      \* the loop variable attempt
    f_ret,          \* "running", "soup" or None
    f_trace,        \* one entry per attempt made: outcome, sleep, jitter
    \* the world outside the program
    buckets,        \* the (Year, Month) pairs main sweeps, in order
    site,           \* per bucket: the listing pages and the detail page of each href
    api,            \* what can meet a query to the commits API
    \* the files, per bucket
    logfile,        \* logs/{YM}.log
    resfile,        \* results/{YM}.jsonl
    patchfile,      \* crawl_result/{YM}_patch.jsonl
    errorfile,      \* crawl_result/{YM}_patch_error.txt
    \* the process
    pc,             \* "main1", "one", "main2", "two", "exit", "crashed", "killed"
    bidx,           \* position of main's loops in buckets
    i,              \* step_one: the loop index
    already_query_qid,
    querys, qi, fetchs, errors,     \* step_two: the locals
    \* history
    one_log,        \* per bucket, the last step_one call of this process
    two_log,        \* per bucket, the last step_two call of this process
    earlier         \* per bucket, the link-log indices whose detail page
                    \* earlier processes fetched

filterVars == <<cwe_texts, cwe_ret>>
fetchVars == <<f_attempt, f_ret, f_trace>>
funVars == <<filterVars, fetchVars>>
worldVars == <<buckets, site, api>>
fileVars == <<logfile, resfile, patchfile, errorfile>>
oneVars == <<i, already_query_qid>>
twoVars == <<querys, qi, fetchs, errors>>
procVars == <<pc, bidx, i, already_query_qid, querys, qi, fetchs, errors>>
histVars == <<one_log, two_log, earlier>>
crawlVars == <<worldVars, fileVars, procVars, histVars>>
vars == <<filterVars, fetchVars, crawlVars>>

\* Python's None, for the string-valued fields and results.
None == "<None>"

(***************************************************************************)
(* Text helpers.  A text is a sequence of one-character strings.           *)
(***************************************************************************)
DigitChars == <<"0", "1", "2", "3", "4", "5", "6", "7", "8", "9">>

IsDigit(c) == \E d \in 1..10 : DigitChars[d] = c

RECURSIVE Str(_)
\* str(n) for a natural number n, as a text
Str(n) == IF n < 10 THEN <<DigitChars[n + 1]>>
          ELSE Str(n \div 10) \o <<DigitChars[(n % 10) + 1]>>

RECURSIVE Flatten(_)
\* concatenation of a sequence of texts
Flatten(ps) == IF ps = <<>> THEN <<>> ELSE Head(ps) \o Flatten(Tail(ps))

Min(S) == CHOOSE x \in S : \A y \in S : x <= y

(***************************************************************************)
(* ALLOWED_CWE_IDS and has_allowed_cwe                                     *)
(***************************************************************************)
ALLOWED_CWE_IDS ==
    { Str(n) : n \in
        { 326, 327, 328, 347, 329, 1204, 1240, 780, 757,
          330, 331, 332, 334, 335, 336, 337, 338, 339, 1241,
          321, 322, 323, 324, 798,
          295, 296, 297, 298, 299, 370, 599,
          319, 523, 1428, 614, 1004, 311, 312, 313, 315, 316, 317, 318,
          759, 760, 916 } }

\* Does the pattern CWE-(\d+) match the text t starting at position p?
TagAt(t, p) ==
    /\ p + 4 <= Len(t)
    /\ t[p] = "C" /\ t[p + 1] = "W" /\ t[p + 2] = "E" /\ t[p + 3] = "-"
    /\ IsDigit(t[p + 4])

\* The maximal run of digits of t that starts at position p (\d+ is greedy).
DigitRun(t, p) ==
    LET stop == Min({q \in p..(Len(t) + 1) : q = Len(t) + 1 \/ ~IsDigit(t[q])})
    IN  SubSeq(t, p, stop - 1)

\* re.search(r"CWE-(\d+)", t): group(1) of the leftmost match, or <<>> for
\* no match (group(1) of a match is never empty).
ReSearchFirstTag(t) ==
    LET hits == {p \in 1..Len(t) : TagAt(t, p)}
    IN  IF hits = {} THEN <<>> ELSE DigitRun(t, Min(hits) + 4)

RECURSIVE has_allowed_cwe(_)
has_allowed_cwe(texts) ==
    IF texts = <<>> THEN FALSE
    ELSE LET m == ReSearchFirstTag(Head(texts))
         IN  IF m # <<>> /\ m \in ALLOWED_CWE_IDS THEN TRUE
             ELSE has_allowed_cwe(Tail(texts))

(***************************************************************************)
(* Inputs of has_allowed_cwe: lists of at most two texts, each text built  *)
(* from at most MaxPieces pieces in total.                                 *)
(***************************************************************************)
MaxPieces == 5

Pieces == { <<"C", "W", "E", "-">>, <<"7", "9">>, <<"7", "9", "8">>, <<" ">> }

PieceSeqs(max) == UNION { [1..n -> Pieces] : n \in 0..max }

FilterInputs(max) ==
    { <<>> }
    \cup { <<Flatten(ps)>> : ps \in PieceSeqs(max) }
    \cup UNION { { <<Flatten(SubSeq(ps, 1, c)), Flatten(SubSeq(ps, c + 1, Len(ps)))>>
                   : c \in 0..Len(ps) } : ps \in PieceSeqs(max) }

InitFilterVars ==
    /\ cwe_texts = <<>>
    /\ cwe_ret = "unset"

\* A caller passes a list of texts to has_allowed_cwe and keeps the answer.
CallHasAllowedCwe ==
    /\ cwe_ret = "unset"
    /\ cwe_ret' = IF has_allowed_cwe(cwe_texts) THEN "True" ELSE "False"
    /\ UNCHANGED <<cwe_texts>>

(***************************************************************************)
(* get_soup                                                                *)
(***************************************************************************)
max_retries == 5

\* base_delay = 0.5 s; all delays are in milliseconds
base_delay == 500

Outcomes == {"ok", "http403", "http429", "httpOther", "urlerror", "exception"}

\* random.uniform(0.25, 0.45), in milliseconds: the two ends of the range
Jitters == {250, 450}

\* Slip: the power written as a product.
Backoff_Product(attempt) == base_delay * (2 * attempt)

\* base_delay * (2 ** attempt): the 403/429 delay without its jitter term
Backoff(attempt) == base_delay * (2 ^ attempt)

\* The time.sleep argument after a failed attempt, by exception class.
SleepAfter(attempt, outcome, jitter) ==
    CASE outcome \in {"http403", "http429"} -> Backoff(attempt) + jitter
      [] outcome = "httpOther" -> attempt * 200
      [] outcome = "urlerror" -> base_delay + attempt * 1000
      [] OTHER -> 200

RECURSIVE GetSoupFrom(_, _)
GetSoupFrom(attempt, outs) ==
    IF attempt >= max_retries THEN None
    ELSE IF outs[attempt + 1] = "ok" THEN "soup"
    ELSE GetSoupFrom(attempt + 1, outs)

\* The value get_soup returns when its attempts meet the outcomes outs
\* (outs[a + 1] is the outcome of attempt a).
get_soup(outs) == GetSoupFrom(0, outs)

InitFetchVars ==
    /\ f_attempt = 0
    /\ f_ret = IF max_retries = 0 THEN None ELSE "running"
    /\ f_trace = <<>>

\* The body of GetSoupAttempt for a given loop guard.
GetSoupBody(inRange) ==
    /\ f_ret = "running"
    /\ inRange
    /\ \E outcome \in Outcomes, jitter \in Jitters :
         LET j == IF outcome \in {"http403", "http429"} THEN jitter ELSE 0
             s == IF outcome = "ok" THEN 0 ELSE SleepAfter(f_attempt, outcome, j)
         IN  /\ f_trace' = Append(f_trace,
                    [attempt |-> f_attempt, outcome |-> outcome, sleep |-> s, jitter |-> j])
             /\ IF outcome = "ok"
                  THEN /\ f_ret' = "soup"
                       /\ UNCHANGED f_attempt
                  ELSE /\ f_attempt' = f_attempt + 1
                       /\ f_ret' = IF inRange' THEN "running" ELSE None

\* Slip: a loop that runs one attempt past the ceiling.
GetSoupAttempt_OffByOne == GetSoupBody(f_attempt <= max_retries)

\* One pass through the body of get_soup's for loop; the return after the
\* loop is taken with the last failed attempt.
GetSoupAttempt == GetSoupBody(f_attempt < max_retries)

(***************************************************************************)
(* The remote site.  An href of a listing page is a directory, a name and  *)
(* an optional trailing slash: "/" \o dir \o "/" \o name [\o "/"].         *)
(***************************************************************************)
Href(dir, name, slash) == [dir |-> dir, name |-> name, slash |-> slash]

\* The names that start with "CVE"
CVENames == {"CVE-A", "CVE-B", "CVE-C", "CVE-D", "CVE-E"}

\* re.compile(r"^/vulnerability-database/CVE") matches the href
IsCveHref(h) == h.dir = "vulnerability-database" /\ h.name \in CVENames

\* content[i].strip().split("/")[-1]
LastSegment(h) == IF h.slash THEN "" ELSE h.name

\* The anchors that find_all("a", href=...) keeps, in document order
CveAnchors(page) == SelectSeq(page.anchors, IsCveHref)

\* int(soup.find_all("li", class_="vuln-pagination-item")[-2].text.strip()),
\* 1 when that raises.  An item text that is no number is modelled as -1.
MaxPageNumber(page) ==
    LET items == page.pagination
    IN  IF Len(items) < 2 THEN 1
        ELSE IF items[Len(items) - 1] < 0 THEN 1
        ELSE items[Len(items) - 1]

\* Python truthiness of a string-or-None value
Truthy(v) == v # None /\ v # ""

(***************************************************************************)
(* URLs of reference links, as sequences of tokens; the tokens below are   *)
(* the only ones that contain "commit" and "github".                       *)
(***************************************************************************)
CommitTokens == {"/commit/", "/commits/"}
GithubTokens == {"https://github.com/", "https://api.github.com/repos/"}

HasToken(u, toks) == \E k \in 1..Len(u) : u[k] \in toks

\* res.replace("/commit/", "/commits/").replace("https://github.com/",
\*                                             "https://api.github.com/repos/")
ToQuery(u) ==
    [k \in 1..Len(u) |->
        IF u[k] = "/commit/" THEN "/commits/"
        ELSE IF u[k] = "https://github.com/" THEN "https://api.github.com/repos/"
        ELSE u[k]]

UCommit1 == <<"https://github.com/", "o/r", "/commit/", "a1">>
UCommit2 == <<"https://github.com/", "o/r", "/commit/", "b2">>
UCommit3 == <<"https://github.com/", "o/r", "/commit/", "c3">>
UIssue == <<"https://github.com/", "o/r", "/issues/", "7">>
UGitlab == <<"https://gitlab.com/", "o/r", "/commit/", "d4">>

(***************************************************************************)
(* Detail pages and the extraction of lines 192-253                        *)
(***************************************************************************)
TxtCWE798 == <<"C", "W", "E", "-", "7", "9", "8", " ", "(", "x", ")">>
TxtCWE79 == <<"C", "W", "E", "-", "7", "9">>
TxtOther == <<"N", "V", "D">>

FullTable ==
    << [th |-> "Attack Vector", td |-> "N"], [th |-> "Attack Complexity", td |-> "L"],
       [th |-> "Privileges Required", td |-> "N"], [th |-> "User Interaction", td |-> "R"],
       [th |-> "Scope", td |-> "U"], [th |-> "Confidentiality", td |-> "H"],
       [th |-> "Integrity", td |-> "L"], [th |-> "Availability", td |-> "N"] >>

PageGood ==
    [ h4 |-> << [label |-> "Date:", val |-> "2024-01-02"], [label |-> "Language:", val |-> "C"] >>,
      desc |-> "text",
      refs |-> << <<UCommit1, UIssue>>, <<UCommit2>> >>,
      score |-> "7.5",
      table |-> [has |-> TRUE, rows |-> FullTable],
      lightbox |-> <<TxtOther, TxtCWE798>> ]

\* passes the filter and the gate with every optional landmark missing
PageSparse ==
    [ h4 |-> << [label |-> "Language:", val |-> "Go"], [label |-> "Date:", val |-> "2024-02-03"] >>,
      desc |-> None,
      refs |-> << <<UGitlab, UCommit3>> >>,
      score |-> None,
      table |-> [has |-> FALSE, rows |-> <<>>],
      lightbox |-> <<TxtCWE798>> ]

\* no allowed classification code
PageFilterFail == [PageGood EXCEPT !.lightbox = <<TxtCWE79, TxtOther>>]

\* no "Date:" heading
PageNoDate == [PageGood EXCEPT !.h4 = << [label |-> "Language:", val |-> "C"] >>]

\* a metrics-table row without a header cell
PageBadTable ==
    [PageGood EXCEPT !.table = [has |-> TRUE,
                                rows |-> << [th |-> "Attack Vector", td |-> "N"],
                                            [th |-> None, td |-> "L"] >>]]

PageKinds == {PageGood, PageSparse, PageFilterFail, PageNoDate, PageBadTable}

\* "CWE" in link.text
ContainsCWE(t) ==
    \E p \in 1..(Len(t) - 2) : t[p] = "C" /\ t[p + 1] = "W" /\ t[p + 2] = "E"

RECURSIVE LastH4(_, _, _)
\* the loop over the h4 tags: the last tag with the label wins
LastH4(h4, label, acc) ==
    IF h4 = <<>> THEN acc
    ELSE LastH4(Tail(h4), label, IF Head(h4).label = label THEN Head(h4).val ELSE acc)

\* the td of the last row whose th carries the keyword, None without one
Metric(rows, key) ==
    LET hits == {k \in 1..Len(rows) : rows[k].th = key}
    IN  IF hits = {} THEN None ELSE rows[CHOOSE k \in hits : \A m \in hits : m <= k].td

\* tr.find("th").text or tr.find("td").text raises AttributeError
TableRaises(page) ==
    /\ page.table.has
    /\ \E k \in 1..Len(page.table.rows) :
          page.table.rows[k].th = None \/ page.table.rows[k].td = None

\* one_res as lines 164-253 leave it, for link-log line h at index i
one_res(idx, h, page) ==
    LET rows == IF page.table.has THEN page.table.rows ELSE <<>>
    IN  [ q_id |-> idx,
          cve_id |-> LastSegment(h),
          language |-> LastH4(page.h4, "Language:", None),
          date |-> LastH4(page.h4, "Date:", None),
          resources |-> Flatten(page.refs),
          CWEs |-> SelectSeq(page.lightbox, ContainsCWE),
          cvss |-> IF page.score = None THEN "" ELSE page.score,
          description |-> page.desc,
          AV |-> Metric(rows, "Attack Vector"),
          AC |-> Metric(rows, "Attack Complexity"),
          PR |-> Metric(rows, "Privileges Required"),
          UI |-> Metric(rows, "User Interaction"),
          S |-> Metric(rows, "Scope"),
          C |-> Metric(rows, "Confidentiality"),
          I |-> Metric(rows, "Integrity"),
          A |-> Metric(rows, "Availability") ]

\* Slip: the date dropped from the condition of lines 259-266.
Complete_NoDateCheck(r) ==
    /\ Truthy(r.cve_id)
    /\ Truthy(r.language)
    /\ r.resources # <<>>
    /\ r.CWEs # <<>>
    /\ r.cvss # None

\* the condition of lines 259-266
Complete(r) ==
    /\ Truthy(r.cve_id)
    /\ Truthy(r.language)
    /\ Truthy(r.date)
    /\ r.resources # <<>>
    /\ r.CWEs # <<>>
    /\ r.cvss # None

\* Slip: the record written although a row of the metrics table raised.
ItemVerdict_TableIgnored(idx, h, soup, page) ==
    IF soup = None THEN "skip"
    ELSE IF ~has_allowed_cwe(one_res(idx, h, page).CWEs) THEN "skip"
    ELSE IF Complete(one_res(idx, h, page)) THEN "write"
    ELSE "skip"

\* What one pass of the item loop past the cursor does with the fetched
\* page: "skip" (no soup, an exception, the filter or the gate), or "write".
ItemVerdict(idx, h, soup, page) ==
    IF soup = None THEN "skip"
    ELSE IF TableRaises(page) THEN "skip"
    ELSE IF ~has_allowed_cwe(one_res(idx, h, page).CWEs) THEN "skip"
    ELSE IF Complete(one_res(idx, h, page)) THEN "write"
    ELSE "skip"

(***************************************************************************)
(* The world: buckets, sites and the commits API                           *)
(***************************************************************************)
\* main, lines 340-341 and the nesting of lines 342-347
Years == <<2024, 2025>>
Months == <<1, 2, 3, 4, 5, 6, 7, 8, 9, 10, 11, 12>>
FullSweep ==
    [k \in 1..(Len(Years) * Len(Months)) |->
        [Year |-> Years[((k - 1) \div Len(Months)) + 1],
         Month |-> Months[((k - 1) % Len(Months)) + 1]]]

\* Number of item links of the largest listing
MaxLinks == 3

HrefOrder == <<"CVE-A", "CVE-B", "CVE-C", "CVE-D", "CVE-E">>
HrefOf(k) == Href("vulnerability-database", HrefOrder[k], FALSE)
AboutHref == Href("about", "us", FALSE)

\* A listing of n item links: two links and a foreign anchor on page 1, the
\* rest on page 2, with a pagination control when there is a page 2.
ListingOf(n) ==
    IF n <= 2
      THEN << [anchors |-> <<AboutHref>> \o [k \in 1..n |-> HrefOf(k)],
               pagination |-> <<>>] >>
      ELSE << [anchors |-> <<HrefOf(1), AboutHref, HrefOf(2)>>,
               pagination |-> <<1, 2, -1>>],
              [anchors |-> [k \in 1..(n - 2) |-> HrefOf(k + 2)] \o <<AboutHref>>,
               pagination |-> <<1, 2, -1>>] >>

\* The sites: a listing and a detail page for every item link.  The first
\* link's page is a complete, accepted one.
Sites ==
    UNION { { [listing |-> ListingOf(n),
               detail |-> [k \in 1..n |-> IF k = 1 THEN PageGood ELSE d[k]]]
              : d \in [2..n -> PageKinds] } : n \in 1..MaxLinks }

\* The page of href h on site st
DetailOf(st, h) ==
    st.detail[CHOOSE k \in 1..Len(st.detail) : HrefOf(k).name = h.name]

TopKeys == {"url", "html_url", "commit", "files", "sha"}
CommitKeys == {"message", "committer.date"}
\* the key-set of line 317
RequiredKeys == {"url", "html_url", "commit", "files"}

Json(keys, commit) == [kind |-> "json", keys |-> keys, commit |-> commit]
NoJson(kind) == [kind |-> kind, keys |-> {}, commit |-> {}]

EvComplete == Json(TopKeys, CommitKeys)
\* a response object lacking one key of the key-set
EvLacking == { Json(TopKeys \ {k}, IF k = "commit" THEN {} ELSE CommitKeys)
               : k \in RequiredKeys }
\* a response with the key-set but without sha, commit.message or the date
EvShallow == { Json(TopKeys \ {"sha"}, CommitKeys),
               Json(TopKeys, {"committer.date"}), Json(TopKeys, {"message"}) }
\* curl exits non-zero; the output is no JSON; the process is interrupted
EvFailing == { NoJson("curlfail"), NoJson("notjson") }
EvInterrupt == NoJson("interrupt")

ApiEvents == {EvComplete} \cup EvLacking \cup EvShallow \cup EvFailing \cup {EvInterrupt}

\* The kind of thing that met a query: a response with every field used, a
\* response object without the key-set, one with the key-set but without a
\* nested field, a failed call or parse, an interrupt.
EventClass(data) ==
    CASE data = EvComplete -> "complete"
      [] data \in EvLacking -> "lacking"
      [] data \in EvShallow -> "shallow"
      [] data \in EvFailing -> "failing"
      [] OTHER -> "interrupt"

(***************************************************************************)
(* Files.  A line of the record artifact is a sequence of chunks, each the *)
(* JSON text of a record or a cut-off prefix of it, with or without the    *)
(* final newline.                                                          *)
(***************************************************************************)
NoFile == [exists |-> FALSE, lines |-> <<>>]
FileOf(lines) == [exists |-> TRUE, lines |-> lines]

Chunk(rec, whole) == [json |-> rec, whole |-> whole]

\* f2.write(text) on a file opened with "a": the text joins the last line
\* when that line has no newline yet
AppendText(file, chunk, nl) ==
    LET ls == file.lines
        n == Len(ls)
    IN  IF n > 0 /\ ~ls[n].nl
          THEN FileOf([ls EXCEPT ![n] = [chunks |-> Append(ls[n].chunks, chunk), nl |-> nl]])
          ELSE FileOf(Append(ls, [chunks |-> <<chunk>>, nl |-> nl]))

\* json.loads(line) succeeds: the line is the text of one record
Parses(line) == Len(line.chunks) = 1 /\ line.chunks[1].whole
Loads(line) == line.chunks[1].json

\* Slip: the cursor test of line 182 written with < for <=.
PastCursor_OffByOne(idx, cursor) == ~(idx < cursor)

\* line 182, negated: the item at idx is processed
PastCursor(idx, cursor) == ~(idx <= cursor)

\* lines 284-294: the queries of the records, record order then link order
RECURSIVE DeriveQuerys(_)
DeriveQuerys(cves) ==
    IF cves = <<>> THEN <<>>
    ELSE LET eligible(res) == HasToken(res, CommitTokens) /\ HasToken(res, GithubTokens)
             mine == SelectSeq(Head(cves).resources, eligible)
         IN  [k \in 1..Len(mine) |-> ToQuery(mine[k])] \o DeriveQuerys(Tail(cves))

\* the dict of lines 319-326 for query q
ResultOf(q) ==
    [url |-> q, html_url |-> q[2], message |-> "msg", files |-> <<"f">>,
     commit_id |-> q[Len(q)], commit_date |-> "date"]

\* lines 298-331 for one query: control reaches time.sleep(0.2) of line 331,
\* which the continue of line 316 and an exception in lines 319-326 skip
QuerySleeps(data) ==
    /\ data.kind = "json"
    /\ RequiredKeys \subseteq data.keys => ("sha" \in data.keys /\ CommitKeys \subseteq data.commit)

\* Slip: a response without the key-set is dropped instead of recorded.
QueryEffect_NoLedger(data, q, fs, es) ==
    IF data.kind = "interrupt" THEN [fetchs |-> fs, errors |-> es, raised |-> TRUE]
    ELSE IF data.kind # "json" THEN [fetchs |-> fs, errors |-> es, raised |-> FALSE]
    ELSE IF RequiredKeys \subseteq data.keys
      THEN IF "sha" \in data.keys /\ CommitKeys \subseteq data.commit
             THEN [fetchs |-> Append(fs, ResultOf(q)), errors |-> es, raised |-> FALSE]
             ELSE [fetchs |-> fs, errors |-> es, raised |-> TRUE]
      ELSE [fetchs |-> fs, errors |-> es, raised |-> FALSE]

\* lines 298-331 for one query: the lists after it, and whether an exception
\* leaves the for loop
QueryEffect(data, q, fs, es) ==
    IF data.kind = "interrupt" THEN [fetchs |-> fs, errors |-> es, raised |-> TRUE]
    ELSE IF data.kind # "json" THEN [fetchs |-> fs, errors |-> es, raised |-> FALSE]
    ELSE IF RequiredKeys \subseteq data.keys
      THEN IF "sha" \in data.keys /\ CommitKeys \subseteq data.commit
             THEN [fetchs |-> Append(fs, ResultOf(q)), errors |-> es, raised |-> FALSE]
             ELSE [fetchs |-> fs, errors |-> es, raised |-> TRUE]
      ELSE [fetchs |-> fs, errors |-> Append(es, q), raised |-> FALSE]

(***************************************************************************)
(* main, step_one and step_two as one sequential process                   *)
(***************************************************************************)
\* The per-attempt outcomes a get_soup call may meet: the first k attempts
\* are rate-limited and the next one, if any is left, succeeds; or every
\* attempt fails in transport.
FetchScripts ==
    { [a \in 1..max_retries |-> IF a <= k THEN "http429" ELSE "ok"] : k \in 0..max_retries }
    \cup { [a \in 1..max_retries |-> "urlerror"] }

\* What a step_one call did: how it ended, the cursor it read, whether the
\* record artifact held a line when it started, the soup of each listing page
\* it fetched and the URL and referer of each of these fetches, the soup of
\* each item it passed ("nofetch" for none), and the records it wrote.
NoOneLog ==
    [status |-> "none", cursor |-> 0, resumed |-> FALSE, walk |-> <<>>,
     fetches |-> <<>>, soups |-> <<>>, wrote |-> <<>>]
\* What a step_two call did: how it ended, how many queries it completed,
\* what met each query it issued, and whether the sleep of line 331 followed.
NoTwoLog == [status |-> "none", n |-> 0, met |-> <<>>, naps |-> <<>>]

Bs == 1..Len(buckets)

InitCrawlVars ==
    /\ logfile = [b \in Bs |-> NoFile]
    /\ resfile = [b \in Bs |-> NoFile]
    /\ patchfile = [b \in Bs |-> NoFile]
    /\ errorfile = [b \in Bs |-> NoFile]
    /\ pc = "main1"
    /\ bidx = 1
    /\ i = 0
    /\ already_query_qid = 0
    /\ querys = <<>>
    /\ qi = 0
    /\ fetchs = <<>>
    /\ errors = <<>>
    /\ one_log = [b \in Bs |-> NoOneLog]
    /\ two_log = [b \in Bs |-> NoTwoLog]
    /\ earlier = [b \in Bs |-> {}]

\* Slip: step_two called for a bucket right after its step_one.
ReturnFromOne_Interleaved ==
    /\ pc' = "main2"
    /\ bidx' = bidx
    /\ i' = 0
    /\ already_query_qid' = 0

\* main, lines 342-347: where control goes when step_one / step_two returns
ReturnFromOne ==
    /\ IF bidx < Len(buckets)
         THEN pc' = "main1" /\ bidx' = bidx + 1
         ELSE pc' = "main2" /\ bidx' = 1
    /\ i' = 0
    /\ already_query_qid' = 0

ReturnFromTwo ==
    /\ IF bidx < Len(buckets)
         THEN pc' = "main2" /\ bidx' = bidx + 1
         ELSE pc' = "exit" /\ bidx' = 1
    /\ querys' = <<>>
    /\ qi' = 0
    /\ fetchs' = <<>>
    /\ errors' = <<>>

\* an exception leaves main: the process ends
Raise ==
    /\ pc' = "crashed"
    /\ bidx' = 1
    /\ i' = 0
    /\ already_query_qid' = 0
    /\ querys' = <<>>
    /\ qi' = 0
    /\ fetchs' = <<>>
    /\ errors' = <<>>

\* lines 119 and 136: the URL of listing page p of bucket ym
ListingUrl(ym, p) ==
    IF p = 1 THEN <<"full-listing", ym.Year, ym.Month>>
    ELSE <<"full-listing", ym.Year, ym.Month, p>>

\* lines 120 and 137: the referer argument of the fetch of listing page p
WalkReferer(ym, p) ==
    IF p = 1 THEN None ELSE <<"full-listing", ym.Year, ym.Month>>

\* Slip: the walk goes on without the first page.
InitialPageFailed_Ignored(soup) == FALSE

\* line 121: the first page was not fetched
InitialPageFailed(soup) == soup = None

\* Slip: break for continue at line 140.
WalkLinks_StopAtFailure(st, soups) ==
    LET max_pagenumber == MaxPageNumber(st.listing[1])
        later == [p \in 2..max_pagenumber |->
                    IF p <= Len(st.listing) /\ \A q \in 2..p : soups[q] # None
                      THEN CveAnchors(st.listing[p]) ELSE <<>>]
        RECURSIVE Cat(_)
        Cat(p) == IF p > max_pagenumber THEN <<>> ELSE later[p] \o Cat(p + 1)
    IN  CveAnchors(st.listing[1]) \o Cat(2)

\* lines 118-147: the links of the listing walk, given the soup of each page
\* (soups[p] for page p); called with soups[1] # None
WalkLinks(st, soups) ==
    LET max_pagenumber == MaxPageNumber(st.listing[1])
        later == [p \in 2..max_pagenumber |->
                    IF p <= Len(st.listing) /\ soups[p] # None
                      THEN CveAnchors(st.listing[p]) ELSE <<>>]
        RECURSIVE Cat(_)
        Cat(p) == IF p > max_pagenumber THEN <<>> ELSE later[p] \o Cat(p + 1)
    IN  CveAnchors(st.listing[1]) \o Cat(2)

\* Slip: the cursor read from the first line of the record artifact.
ReadCursor_FirstLine(file) ==
    IF ~file.exists \/ file.lines = <<>> THEN 0
    ELSE IF Parses(file.lines[1])
      THEN Loads(file.lines[1]).q_id
      ELSE -1

\* lines 154-159: the cursor read from the record artifact; "raise" when
\* json.loads raises on the last line
ReadCursor(file) ==
    IF ~file.exists \/ file.lines = <<>> THEN 0
    ELSE IF Parses(file.lines[Len(file.lines)])
      THEN Loads(file.lines[Len(file.lines)]).q_id
      ELSE -1

\* step_one, lines 113-161: the listing walk when there is no link log, the
\* cursor, and the entry into the item loop
CallStepOne ==
    /\ pc = "main1"
    /\ LET b == bidx
           st == site[b]
           walked == ~logfile[b].exists
           \* the listing pages are fetched only when there is no link log
           pages == IF walked THEN 1..Len(st.listing) ELSE {}
       IN  \E scripts \in [pages -> FetchScripts] :
             LET soups == [p \in pages |-> get_soup(scripts[p])]
                 content == IF walked THEN WalkLinks(st, soups) ELSE logfile[b].lines
                 cursor == ReadCursor(resfile[b])
                 \* the number of listing pages the call fetches
                 fetched == IF ~walked THEN 0
                            ELSE IF InitialPageFailed(soups[1]) THEN 1
                            ELSE MaxPageNumber(st.listing[1])
                 log == [NoOneLog EXCEPT !.cursor = cursor,
                             !.resumed = resfile[b].exists /\ resfile[b].lines # <<>>,
                             !.walk = [p \in 1..fetched |-> soups[p]],
                             !.fetches = [p \in 1..fetched |->
                                            [url |-> ListingUrl(buckets[b], p),
                                             referer |-> WalkReferer(buckets[b], p)]]]
             IN  IF walked /\ InitialPageFailed(soups[1])
                   THEN \* lines 121-123
                        /\ one_log' = [one_log EXCEPT ![b] = [log EXCEPT !.status = "skipped"]]
                        /\ ReturnFromOne
                        /\ UNCHANGED fileVars
                   ELSE /\ logfile' = [logfile EXCEPT ![b] = FileOf(content)]
                        /\ UNCHANGED <<resfile, patchfile, errorfile>>
                        /\ IF cursor < 0
                             THEN /\ one_log' = [one_log EXCEPT ![b] = [log EXCEPT !.status = "raised"]]
                                  /\ Raise
                             ELSE IF content = <<>>
                               THEN /\ one_log' = [one_log EXCEPT ![b] = [log EXCEPT !.status = "returned"]]
                                    /\ ReturnFromOne
                               ELSE /\ one_log' = [one_log EXCEPT ![b] = [log EXCEPT !.status = "running"]]
                                    /\ pc' = "one"
                                    /\ i' = 0
                                    /\ already_query_qid' = cursor
                                    /\ UNCHANGED bidx
    /\ UNCHANGED <<funVars, worldVars, earlier, twoVars, two_log>>

\* step_one, lines 161-271: one pass of the item loop, and the return after
\* the last one
ItemStep ==
    /\ pc = "one"
    /\ LET b == bidx
           content == logfile[b].lines
           h == content[i + 1]
           page == DetailOf(site[b], h)
           last == (i + 1 = Len(content))
           fetched == PastCursor(i, already_query_qid)
       IN  \E script \in IF fetched THEN FetchScripts ELSE {<<>>} :
             LET soup == IF fetched THEN get_soup(script) ELSE "nofetch"
                 write == fetched /\ ItemVerdict(i, h, soup, page) = "write"
                 rec == one_res(i, h, page)
             IN  /\ resfile' = IF write
                                 THEN [resfile EXCEPT ![b] = AppendText(@, Chunk(rec, TRUE), TRUE)]
                                 ELSE resfile
                 /\ one_log' = [one_log EXCEPT
                        ![b].soups = Append(@, soup),
                        ![b].wrote = IF write THEN Append(@, rec) ELSE @,
                        ![b].status = IF last THEN "returned" ELSE @]
                 /\ IF last THEN ReturnFromOne
                            ELSE i' = i + 1 /\ UNCHANGED <<pc, bidx, already_query_qid>>
    /\ UNCHANGED <<funVars, worldVars, earlier, logfile, patchfile, errorfile, twoVars, two_log>>

\* The process is killed between two steps.
Kill ==
    /\ pc \in {"main1", "one", "main2", "two"}
    /\ one_log' = IF pc = "one" THEN [one_log EXCEPT ![bidx].status = "killed"] ELSE one_log
    /\ two_log' = IF pc = "two" THEN [two_log EXCEPT ![bidx].status = "killed"] ELSE two_log
    /\ pc' = "killed"
    /\ bidx' = 1
    /\ i' = 0
    /\ already_query_qid' = 0
    /\ querys' = <<>>
    /\ qi' = 0
    /\ fetchs' = <<>>
    /\ errors' = <<>>
    /\ UNCHANGED <<funVars, worldVars, earlier, fileVars>>

\* The process is killed inside lines 267-269, while the record of item i
\* is being appended: the file is left created and empty-handed, with a
\* cut-off prefix of the line, or with the line less its newline.
KillInAppend ==
    /\ pc = "one"
    /\ LET b == bidx
           h == logfile[b].lines[i + 1]
           page == DetailOf(site[b], h)
           rec == one_res(i, h, page)
       IN  /\ PastCursor(i, already_query_qid)
           /\ ItemVerdict(i, h, "soup", page) = "write"
           /\ \E left \in {"nothing", "cut", "nonewline"} :
                resfile' = [resfile EXCEPT ![b] =
                    CASE left = "nothing" -> FileOf(@.lines)
                      [] left = "cut" -> AppendText(@, Chunk(rec, FALSE), FALSE)
                      [] OTHER -> AppendText(@, Chunk(rec, TRUE), FALSE)]
           /\ one_log' = [one_log EXCEPT ![b].status = "killed", ![b].soups = Append(@, "soup")]
    /\ pc' = "killed"
    /\ bidx' = 1
    /\ i' = 0
    /\ already_query_qid' = 0
    /\ UNCHANGED <<funVars, worldVars, earlier, logfile, patchfile, errorfile, twoVars, two_log>>

\* The link-log indices whose detail page the call of log L fetched
FetchedIn(L) == {k - 1 : k \in {n \in 1..Len(L.soups) : L.soups[n] = "soup"}}

\* The program is started again on the same files.
Restart ==
    /\ pc \in {"killed", "crashed", "exit"}
    /\ pc' = "main1"
    /\ bidx' = 1
    /\ one_log' = [b \in Bs |-> NoOneLog]
    /\ two_log' = [b \in Bs |-> NoTwoLog]
    /\ earlier' = [b \in Bs |-> earlier[b] \cup FetchedIn(one_log[b])]
    /\ UNCHANGED <<funVars, worldVars, fileVars, oneVars, twoVars>>

\* Slip: the error ledger opened only when there is an error to write.
WriteOutputs_LedgerSkipped(b, fs, es) ==
    /\ patchfile' = [patchfile EXCEPT ![b] = FileOf(fs)]
    /\ errorfile' = IF es = <<>> THEN errorfile ELSE [errorfile EXCEPT ![b] = FileOf(es)]

\* lines 332-337: the finally clause
WriteOutputs(b, fs, es) ==
    /\ patchfile' = [patchfile EXCEPT ![b] = FileOf(fs)]
    /\ errorfile' = [errorfile EXCEPT ![b] = FileOf(es)]

\* step_two, lines 275-297: the records, the queries, and the entry into
\* the query loop
CallStepTwo ==
    /\ pc = "main2"
    /\ LET b == bidx
           lines == resfile[b].lines
       IN  IF ~resfile[b].exists
             THEN \* lines 281-282
                  /\ two_log' = [two_log EXCEPT ![b] = [NoTwoLog EXCEPT !.status = "noop"]]
                  /\ ReturnFromTwo
                  /\ UNCHANGED fileVars
             ELSE IF \E k \in 1..Len(lines) : ~Parses(lines[k])
               THEN \* line 284 raises
                    /\ two_log' = [two_log EXCEPT ![b] = [NoTwoLog EXCEPT !.status = "readfail"]]
                    /\ Raise
                    /\ UNCHANGED fileVars
               ELSE LET qs == DeriveQuerys([k \in 1..Len(lines) |-> Loads(lines[k])])
                    IN  IF qs = <<>>
                          THEN /\ two_log' = [two_log EXCEPT ![b] = [NoTwoLog EXCEPT !.status = "returned"]]
                               /\ WriteOutputs(b, <<>>, <<>>)
                               /\ ReturnFromTwo
                               /\ UNCHANGED <<logfile, resfile>>
                          ELSE /\ two_log' = [two_log EXCEPT ![b] = [NoTwoLog EXCEPT !.status = "running"]]
                               /\ pc' = "two"
                               /\ querys' = qs
                               /\ qi' = 0
                               /\ fetchs' = <<>>
                               /\ errors' = <<>>
                               /\ UNCHANGED <<bidx, fileVars>>
    /\ UNCHANGED <<funVars, worldVars, earlier, oneVars, one_log>>

\* step_two, lines 297-337: one pass of the query loop; the finally clause
\* when the loop ends or an exception leaves it
QueryStep ==
    /\ pc = "two"
    /\ \E data \in api :
         LET b == bidx
             q == querys[qi + 1]
             eff == QueryEffect(data, q, fetchs, errors)
             last == (qi + 1 = Len(querys))
             met == Append(two_log[b].met, EventClass(data))
             naps == Append(two_log[b].naps, QuerySleeps(data))
         IN  IF eff.raised
               THEN /\ WriteOutputs(b, eff.fetchs, eff.errors)
                    /\ two_log' = [two_log EXCEPT ![b] =
                                      [status |-> "raised", n |-> qi, met |-> met, naps |-> naps]]
                    /\ Raise
               ELSE IF last
                 THEN /\ WriteOutputs(b, eff.fetchs, eff.errors)
                      /\ two_log' = [two_log EXCEPT ![b] =
                                        [status |-> "returned", n |-> qi + 1, met |-> met, naps |-> naps]]
                      /\ ReturnFromTwo
                      /\ UNCHANGED oneVars
                 ELSE /\ fetchs' = eff.fetchs
                      /\ errors' = eff.errors
                      /\ qi' = qi + 1
                      /\ two_log' = [two_log EXCEPT ![b].n = qi + 1, ![b].met = met, ![b].naps = naps]
                      /\ UNCHANGED <<pc, bidx, oneVars, querys, patchfile, errorfile>>
    /\ UNCHANGED <<funVars, worldVars, earlier, logfile, resfile, one_log>>

Next ==
    \/ CallStepOne
    \/ ItemStep
    \/ KillInAppend
    \/ CallStepTwo
    \/ QueryStep
    \/ Kill
    \/ Restart

\* The sweep cut to its first bucket, on any of the sites, with an API that
\* answers every query in full.
Init ==
    /\ InitFilterVars
    /\ InitFetchVars
    /\ buckets = SubSeq(FullSweep, 1, 1)
    /\ site \in [1..Len(buckets) -> Sites]
    /\ api = {EvComplete}
    /\ InitCrawlVars

Spec == Init /\ [][Next]_vars

\* The site whose items past the first are all accepted: the second with
\* two commit links, the others with one.
EnrichSite ==
    [listing |-> ListingOf(MaxLinks),
     detail |-> [k \in 1..MaxLinks |-> IF k <= 2 THEN PageGood ELSE PageSparse]]

\* The sweep cut to its first bucket, on the site of accepted items, with an
\* API that may answer in every way.
InitTwo ==
    /\ InitFilterVars
    /\ InitFetchVars
    /\ buckets = SubSeq(FullSweep, 1, 1)
    /\ site = [b \in 1..Len(buckets) |-> EnrichSite]
    /\ api = ApiEvents
    /\ InitCrawlVars

SpecTwo == InitTwo /\ [][Next]_vars

\* The sites of the two-bucket sweep: two links on one page, the second
\* link's page accepted or with a metrics table that raises.
MainSites ==
    { [listing |-> ListingOf(2), detail |-> <<PageGood, d>>] : d \in {PageGood, PageBadTable} }

\* The sweep cut to its first two buckets, with an API that answers in full
\* unless the call or the parse fails.
InitMain ==
    /\ InitFilterVars
    /\ InitFetchVars
    /\ buckets = SubSeq(FullSweep, 1, 2)
    /\ site \in [1..Len(buckets) -> MainSites]
    /\ api = {EvComplete} \cup EvFailing
    /\ InitCrawlVars

\* The steps of the program itself
Program == CallStepOne \/ ItemStep \/ CallStepTwo \/ QueryStep

\* The process has a next step to take: Program is enabled exactly then
Running == pc \in {"main1", "one", "main2", "two"}

\* A process that is not killed goes on to its next step: weak fairness of
\* Program, with its enabling condition written out.
SpecMain == InitMain /\ [][Next]_vars /\ ([]<>(~Running) \/ []<><<Program>>_vars)

\* Number of pages of the listing of the walk
MaxPages == 3

\* A listing of n pages with one item link each
PagedListing(n) ==
    [p \in 1..n |-> [anchors |-> <<HrefOf(p), AboutHref>>,
                     pagination |-> [k \in 1..(n + 1) |-> IF k <= n THEN k ELSE -1]]]

\* The sites of the walk: the paged listing, every item page alike
WalkSites ==
    { [listing |-> PagedListing(MaxPages), detail |-> [k \in 1..MaxPages |-> d]]
      : d \in {PageGood, PageFilterFail} }

\* The sweep cut to its first bucket, on a site with a listing of several
\* pages.
InitWalk ==
    /\ InitFilterVars
    /\ InitFetchVars
    /\ buckets = SubSeq(FullSweep, 1, 1)
    /\ site \in [1..Len(buckets) -> WalkSites]
    /\ api = {EvComplete}
    /\ InitCrawlVars

SpecWalk == InitWalk /\ [][Next]_vars

(***************************************************************************)
(* Specifications of the two functions on their own                        *)
(***************************************************************************)
\* The crawl at rest, for the specifications of the functions on their own
InitCrawlIdle ==
    /\ buckets = SubSeq(FullSweep, 1, 1)
    /\ site = [b \in 1..Len(buckets) |-> [listing |-> ListingOf(1), detail |-> <<PageGood>>]]
    /\ api = {EvComplete}
    /\ InitCrawlVars

InitFilter ==
    /\ cwe_texts \in FilterInputs(MaxPieces)
    /\ cwe_ret = "unset"
    /\ InitFetchVars
    /\ InitCrawlIdle

NextFilter == CallHasAllowedCwe /\ UNCHANGED <<fetchVars, crawlVars>>

SpecFilter == InitFilter /\ [][NextFilter]_vars

InitFetch ==
    /\ InitFilterVars
    /\ InitFetchVars
    /\ InitCrawlIdle

NextFetch == GetSoupAttempt /\ UNCHANGED <<filterVars, crawlVars>>

SpecFetch == InitFetch /\ [][NextFetch]_vars

(***************************************************************************)
(* Properties of has_allowed_cwe and get_soup                              *)
(***************************************************************************)
\* The text t contains a tag CWE-<number> whose number is in the allow-set.
ContainsAllowedTag(t) ==
    \E p \in 1..Len(t) : TagAt(t, p) /\ DigitRun(t, p + 4) \in ALLOWED_CWE_IDS

\* C4: has_allowed_cwe returns true if and only if at least one text of the
\* list contains a CWE-<number> tag whose number is in ALLOWED_CWE_IDS, texts
\* with annotation or with more than one tag included.
C4_FilterIffSomeTagAllowed ==
    cwe_ret # "unset" =>
        ((cwe_ret = "True") <=>
            \E n \in 1..Len(cwe_texts) : ContainsAllowedTag(cwe_texts[n]))

Failed(e) == e.outcome # "ok"

\* C5: one get_soup call makes at most max_retries attempts, returns the
\* document at the first successful attempt with no attempt after it, and
\* after max_retries failed attempts returns None.
C5_BoundedFetch ==
    /\ Len(f_trace) <= max_retries
    /\ f_ret \in {"running", "soup", None}
    /\ \A n \in 1..Len(f_trace) :
          /\ f_trace[n].attempt = n - 1
          /\ ~Failed(f_trace[n]) => (n = Len(f_trace) /\ f_ret = "soup")
    /\ f_ret = "soup" => (f_trace # <<>> /\ ~Failed(f_trace[Len(f_trace)]))
    /\ (Len(f_trace) = max_retries /\ \A n \in 1..Len(f_trace) : Failed(f_trace[n]))
          <=> f_ret = None
    /\ f_ret = "running" => Len(f_trace) < max_retries

\* Every attempt of the ceiling was made and failed, in several ways.
C5_Witness ==
    /\ f_ret = None
    /\ Len(f_trace) = max_retries
    /\ {f_trace[n].outcome : n \in 1..Len(f_trace)}
          = {"http403", "http429", "httpOther", "urlerror", "exception"}

RateLimited(e) == e.outcome \in {"http403", "http429"}

\* C6: when every attempt so far got a 403 or 429, the delay after attempt a
\* without its jitter is base_delay * 2^a, and the delays do not decrease
\* from one attempt to the next.
C6_BackoffMonotone ==
    (\A n \in 1..Len(f_trace) : RateLimited(f_trace[n])) =>
        /\ \A n \in 1..Len(f_trace) :
              f_trace[n].sleep - f_trace[n].jitter = base_delay * (2 ^ (n - 1))
        /\ \A n \in 1..(Len(f_trace) - 1) :
              f_trace[n].sleep - f_trace[n].jitter
                  <= f_trace[n + 1].sleep - f_trace[n + 1].jitter

\* A whole call of 403 and 429 responses, up to the ceiling.
C6_Witness ==
    /\ f_ret = None
    /\ Len(f_trace) = max_retries
    /\ \A n \in 1..Len(f_trace) : RateLimited(f_trace[n])
    /\ \E n, m \in 1..Len(f_trace) :
          f_trace[n].outcome = "http403" /\ f_trace[m].outcome = "http429"

(***************************************************************************)
(* Properties of step_one                                                  *)
(***************************************************************************)
RECURSIVE CleanRunWrites(_, _, _, _)
\* The records a step_one call that finds no record artifact writes for the
\* link-log lines from position k on, when item fetches return soups: the
\* first line is skipped (the cursor starts at 0), every other line is
\* written when its page is fetched, accepted and complete.
CleanRunWrites(st, content, soups, k) ==
    IF k > Len(soups) THEN <<>>
    ELSE LET idx == k - 1
             h == content[k]
             mine == IF idx > 0 /\ ItemVerdict(idx, h, soups[k], DetailOf(st, h)) = "write"
                       THEN <<one_res(idx, h, DetailOf(st, h))>> ELSE <<>>
         IN  mine \o CleanRunWrites(st, content, soups, k + 1)

\* C1: a step_one call that finds the record artifact ending with a record
\* of q_id = k fetches no detail page and writes no record for an index <= k,
\* and for the indices > k writes exactly the records, in order, that a clean
\* run meeting the same pages writes for them.
C1_IdempotentResume ==
    \A b \in Bs :
        LET L == one_log[b]
            after(r) == r.q_id > L.cursor
        IN  (L.resumed /\ L.status \in {"running", "returned"}) =>
              /\ \A k \in 1..Len(L.soups) :
                    (k - 1 <= L.cursor) =>
                        /\ L.soups[k] = "nofetch"
                        /\ \A w \in 1..Len(L.wrote) : L.wrote[w].q_id # k - 1
              /\ L.wrote = SelectSeq(CleanRunWrites(site[b], logfile[b].lines, L.soups, 1), after)

\* A resumed call that skipped up to a cursor past the first line, wrote a
\* record after it and returned.
C1_Witness ==
    \E b \in Bs :
        /\ one_log[b].resumed
        /\ one_log[b].status = "returned"
        /\ one_log[b].cursor >= 1
        /\ one_log[b].wrote # <<>>

LineOf(rec) == [chunks |-> <<Chunk(rec, TRUE)>>, nl |-> TRUE]

\* C2: with no prior artifacts and a 2-page listing (A, B on page 1, C on
\* page 2), A accepted and complete, B failing the filter and C's detail
\* fetch failing, step_one ends with the link log A, B, C and a record
\* artifact holding exactly the record of A with q_id 0.
C2_EndToEnd ==
    ( /\ site[1].listing = ListingOf(3)
      /\ site[1].detail[2] = PageFilterFail
      /\ one_log[1].status = "returned"
      /\ ~one_log[1].resumed
      /\ one_log[1].walk = <<"soup", "soup">>
      /\ one_log[1].soups[3] = None )
    =>
    ( /\ logfile[1] = FileOf(<<HrefOf(1), HrefOf(2), HrefOf(3)>>)
      /\ resfile[1] = FileOf(<<LineOf(one_res(0, HrefOf(1), PageGood))>>) )

\* The lines of a file that are the text of one record
RecordLines(file) == {k \in 1..Len(file.lines) : Parses(file.lines[k])}

\* C3: every record line of a record artifact has a classification code
\* that has_allowed_cwe accepts, a non-empty identifier, language and date,
\* non-empty resources and CWEs and a cvss that is not None; no line of the
\* artifact belongs to an item whose page has no date.
C3_PersistenceGate ==
    \A b \in Bs :
        /\ \A k \in RecordLines(resfile[b]) :
              LET r == Loads(resfile[b].lines[k])
              IN  /\ has_allowed_cwe(r.CWEs)
                  /\ r.cve_id # None /\ r.cve_id # ""
                  /\ r.language # None /\ r.language # ""
                  /\ r.date # None /\ r.date # ""
                  /\ r.resources # <<>>
                  /\ r.CWEs # <<>>
                  /\ r.cvss # None
        /\ \A k \in 1..Len(resfile[b].lines) :
              \A c \in 1..Len(resfile[b].lines[k].chunks) :
                 LET r == resfile[b].lines[k].chunks[c].json
                     page == DetailOf(site[b], logfile[b].lines[r.q_id + 1])
                 IN  \E t \in 1..Len(page.h4) : page.h4[t].label = "Date:"

\* An accepted page without a date was fetched past the cursor, in a call
\* that also wrote a record.
C3_Witness ==
    \E b \in Bs :
        /\ RecordLines(resfile[b]) # {}
        /\ one_log[b].wrote # <<>>
        /\ \E k \in 1..Len(one_log[b].soups) :
              /\ one_log[b].soups[k] = "soup"
              /\ DetailOf(site[b], logfile[b].lines[k]) = PageNoDate

\* C10: whatever a killed step_one call left in the record artifact, no
\* later step_one call raises.
C10_ResumeNeverRaises ==
    \A b \in Bs : one_log[b].status # "raised"

\* C12: no link-log entry has its detail page fetched by more than one
\* process: a step_one call fetches no page that an earlier process fetched.
C12_NeverRefetched ==
    \A b \in Bs : FetchedIn(one_log[b]) \cap earlier[b] = {}

\* The page of the link-log line at position k of bucket b
PageAt(b, k) == DetailOf(site[b], logfile[b].lines[k])

\* C13: an item past the cursor whose page is fetched, passes the filter
\* and has every required field gets its record appended, whatever optional
\* landmark is missing or malformed.
C13_MarkupNeverInterrupts ==
    \A b \in Bs :
        LET L == one_log[b]
        IN  L.status \in {"running", "returned"} =>
              \A k \in 1..Len(L.soups) :
                 LET r == one_res(k - 1, logfile[b].lines[k], PageAt(b, k))
                 IN  (L.soups[k] = "soup" /\ has_allowed_cwe(r.CWEs) /\ Complete(r))
                        => \E w \in 1..Len(L.wrote) : L.wrote[w] = r

\* C15: when the processing of a link raises, no record is written for it,
\* the call does not raise, and the loop goes on to the later links: a call
\* still running stands at the next link, a call that returned has passed
\* every link of the link log.
C15_ItemExceptionCaught ==
    \A b \in Bs :
        LET L == one_log[b]
        IN  \A k \in 1..Len(L.soups) :
              (L.soups[k] = "soup" /\ TableRaises(PageAt(b, k))) =>
                 /\ \A w \in 1..Len(L.wrote) : L.wrote[w].q_id # k - 1
                 /\ \A n \in 1..Len(resfile[b].lines) :
                       \A c \in 1..Len(resfile[b].lines[n].chunks) :
                          resfile[b].lines[n].chunks[c].json.q_id # k - 1
                 /\ L.status \in {"running", "returned", "killed"}
                 /\ L.status = "running" =>
                       pc = "one" /\ bidx = b /\ i = Len(L.soups) /\ i < Len(logfile[b].lines)
                 /\ L.status = "returned" => Len(L.soups) = Len(logfile[b].lines)

\* A call that returned after an item raised and a later item was written.
C15_Witness ==
    \E b \in Bs :
        /\ one_log[b].status = "returned"
        /\ \E k \in 1..Len(one_log[b].soups) :
              /\ one_log[b].soups[k] = "soup"
              /\ TableRaises(PageAt(b, k))
              /\ \E w \in 1..Len(one_log[b].wrote) : one_log[b].wrote[w].q_id > k - 1

RECURSIVE ChunksOf(_)
\* The records and cut-off records of a file, in file order
ChunksOf(lines) ==
    IF lines = <<>> THEN <<>> ELSE Head(lines).chunks \o ChunksOf(Tail(lines))

\* Down the record artifact the q_id values increase strictly, each is an
\* index of the link log, and each record carries the last path segment of
\* the link at its index.
RecordsFollowLinkLog ==
    \A b \in Bs :
        LET cs == ChunksOf(resfile[b].lines)
        IN  /\ \A n, m \in 1..Len(cs) : n < m => cs[n].json.q_id < cs[m].json.q_id
            /\ \A n \in 1..Len(cs) :
                  /\ cs[n].json.q_id \in 0..(Len(logfile[b].lines) - 1)
                  /\ cs[n].json.cve_id = LastSegment(logfile[b].lines[cs[n].json.q_id + 1])

\* A step only appends to the record artifact: the lines ended by a newline
\* stay as they are and what was written stays at the head of the file.
RecordsOnlyAppended ==
    \A b \in Bs :
        LET old == resfile[b].lines
            new == resfile'[b].lines
        IN  /\ resfile[b].exists => resfile'[b].exists
            /\ Len(old) <= Len(new)
            /\ \A n \in 1..Len(old) : old[n].nl => new[n] = old[n]
            /\ SubSeq(ChunksOf(new), 1, Len(ChunksOf(old))) = ChunksOf(old)

\* C19: after any number of step_one calls and restarts the q_id values
\* down the record artifact increase strictly, each is an index of the link
\* log, each record's cve_id is the last path segment of the link at that
\* index, and lines already written are never changed or removed.
C19_RecordsOrderedAndStable == []RecordsFollowLinkLog /\ [][RecordsOnlyAppended]_vars

\* Two record lines, the second written by a resumed call.
C19_Witness ==
    \E b \in Bs :
        /\ Cardinality(RecordLines(resfile[b])) >= 2
        /\ one_log[b].resumed
        /\ one_log[b].wrote # <<>>

(***************************************************************************)
(* Properties of the listing walk                                          *)
(***************************************************************************)
RECURSIVE LinksOfFetched(_, _, _)
\* The item links of the pages from p on whose fetch gave a soup, in page
\* order and document order
LinksOfFetched(listing, walk, p) ==
    IF p > Len(walk) THEN <<>>
    ELSE (IF walk[p] = "soup" THEN SelectSeq(listing[p].anchors, IsCveHref) ELSE <<>>)
         \o LinksOfFetched(listing, walk, p + 1)

\* The link log of a call that walked the listing past page 1 holds the
\* links of the fetched pages in discovery order.
LogHoldsFetchedLinks ==
    \A b \in Bs :
        LET L == one_log[b]
        IN  (L.walk # <<>> /\ L.walk[1] = "soup") =>
               logfile[b] = FileOf(LinksOfFetched(site[b].listing, L.walk, 1))

\* A step that finds the link log of bucket b leaves it as it is, and a
\* step_one call that finds it fetches no listing page.
LogFrozen ==
    \A b \in Bs :
        logfile[b].exists =>
            /\ logfile'[b] = logfile[b]
            /\ (pc = "main1" /\ bidx = b /\ one_log'[b] # one_log[b]) =>
                  /\ one_log'[b].fetches = <<>>
                  /\ one_log'[b].walk = <<>>
                  /\ one_log'[b].status \in {"running", "returned", "raised"}

\* C17: a step_one call that finds the link log fetches no listing page
\* and leaves the log unchanged; the log is written at most once; when
\* written it holds the links of the fetched pages in page order and order
\* within the page, a failed page 2..max giving no links and not stopping
\* the pages after it.
C17_LinkLogWrittenOnce == []LogHoldsFetchedLinks /\ [][LogFrozen]_vars

\* A walk whose second page failed and whose third page gave its link, and
\* a later call on the link log it wrote.
C17_Witness ==
    \E b \in Bs :
        /\ one_log[b].walk = <<"soup", None, "soup">>
        /\ logfile[b] = FileOf(<<HrefOf(1), HrefOf(3)>>)

\* C18: the fetch of listing page p, for 2 <= p <= max page, carries the
\* URL of page p - 1 of the bucket as its referer.
C18_RefererChain ==
    \A b \in Bs :
        \A p \in 2..Len(one_log[b].fetches) :
            one_log[b].fetches[p].referer = one_log[b].fetches[p - 1].url

\* A step_one call for bucket b starts with no link log: it fetches page 1
\* of the listing.
WalkStartsAtPageOne ==
    \A b \in Bs :
        (/\ ~logfile[b].exists
         /\ pc = "main1" /\ bidx = b
         /\ one_log'[b] # one_log[b])
        => /\ one_log'[b].fetches # <<>>
           /\ one_log'[b].fetches[1].url = ListingUrl(buckets[b], 1)

\* A call whose fetch of page 1 failed returned at once, with no link log,
\* no record artifact, and no other fetch.
FailedWalkLeavesNothing ==
    \A b \in Bs :
        LET L == one_log[b]
        IN  (L.walk # <<>> /\ L.walk[1] = None) =>
              /\ L.status = "skipped"
              /\ Len(L.fetches) = 1
              /\ L.soups = <<>> /\ L.wrote = <<>>
              /\ ~logfile[b].exists
              /\ ~resfile[b].exists

\* C20: when there is no link log and the fetch of listing page 1 fails,
\* step_one returns with no link log and no record written and no other
\* page or item fetched, and a later call for the bucket fetches the listing
\* again from page 1.
C20_FailedFirstPage == []FailedWalkLeavesNothing /\ [][WalkStartsAtPageOne]_vars

\* The first page failed in this call; main has moved on.
C20_Witness ==
    \E b \in Bs :
        /\ one_log[b].walk = <<None>>
        /\ one_log[b].status = "skipped"
        /\ pc = "main2"

(***************************************************************************)
(* Properties of step_two                                                  *)
(***************************************************************************)
\* The queries of the records now in the record artifact of bucket b
QuerysOf(b) ==
    DeriveQuerys([k \in 1..Len(resfile[b].lines) |-> Loads(resfile[b].lines[k])])

\* The positions among the first n queries that met an event of class cls
MetAt(b, n, cls) == {k \in 1..n : two_log[b].met[k] = cls}

RECURSIVE Pick(_, _, _)
\* The members of qs at the positions in at, from position k on, in order
Pick(qs, at, k) ==
    IF k > Len(qs) THEN <<>>
    ELSE (IF k \in at THEN <<qs[k]>> ELSE <<>>) \o Pick(qs, at, k + 1)

ResultsOf(qs) == [k \in 1..Len(qs) |-> ResultOf(qs[k])]

\* C7: when every query meets either a complete response or a response
\* object lacking one of url, html_url, commit, files, step_two processes
\* every query and returns, the enrichment artifact holds the results of
\* exactly the complete responses in query order, and the error ledger holds
\* exactly the URLs of the queries whose response lacked a key.
C7_PartialFailure ==
    \A b \in Bs :
        LET T == two_log[b]
            qs == QuerysOf(b)
        IN  (/\ T.status \in {"returned", "raised"}
             /\ \A k \in 1..Len(T.met) : T.met[k] \in {"complete", "lacking"})
            =>
            /\ T.status = "returned"
            /\ T.n = Len(qs)
            /\ Len(T.met) = Len(qs)
            /\ patchfile[b] = FileOf(ResultsOf(Pick(qs, MetAt(b, Len(qs), "complete"), 1)))
            /\ errorfile[b] = FileOf(Pick(qs, MetAt(b, Len(qs), "lacking"), 1))

\* Three queries, the second lacking a key, the others complete.
C7_Witness ==
    \E b \in Bs :
        /\ two_log[b].status = "returned"
        /\ two_log[b].met = <<"complete", "lacking", "complete">>
        /\ Len(patchfile[b].lines) = 2
        /\ Len(errorfile[b].lines) = 1

\* C8: after step_two has finished, every derived query has its result in
\* the enrichment artifact or its URL in the error ledger.
C8_EveryFailureInLedger ==
    \A b \in Bs :
        two_log[b].status = "returned" =>
            \A k \in 1..Len(QuerysOf(b)) :
                \/ \E p \in 1..Len(patchfile[b].lines) :
                       patchfile[b].lines[p] = ResultOf(QuerysOf(b)[k])
                \/ \E e \in 1..Len(errorfile[b].lines) :
                       errorfile[b].lines[e] = QuerysOf(b)[k]

\* C9: once step_two has reached its query loop, however it leaves it (the
\* queries done, or an exception at some query), both output files are
\* written and hold the results and the failing queries of the queries
\* completed before the exit; with no query both are written empty.
C9_WriteOnExit ==
    \A b \in Bs :
        LET T == two_log[b]
            qs == QuerysOf(b)
        IN  T.status \in {"returned", "raised"} =>
              /\ patchfile[b].exists
              /\ errorfile[b].exists
              /\ patchfile[b].lines = ResultsOf(Pick(qs, MetAt(b, T.n, "complete"), 1))
              /\ errorfile[b].lines = Pick(qs, MetAt(b, T.n, "lacking"), 1)
              /\ (qs = <<>> => (patchfile[b].lines = <<>> /\ errorfile[b].lines = <<>>))

\* An exception left the loop after a result and a failing query had been
\* accumulated.
C9_Witness ==
    \E b \in Bs :
        /\ two_log[b].status = "raised"
        /\ two_log[b].n = 2
        /\ patchfile[b].lines # <<>>
        /\ errorfile[b].lines # <<>>

\* C14: when the responses are complete or lack a required field (url,
\* html_url, commit, files, sha, commit.message or commit.committer.date),
\* step_two processes every query and returns, with the URL of every query
\* whose response lacked a field in the error ledger.
C14_ShapeFailureNeverAborts ==
    \A b \in Bs :
        LET T == two_log[b]
            qs == QuerysOf(b)
        IN  (/\ T.status \in {"returned", "raised"}
             /\ \A k \in 1..Len(T.met) : T.met[k] \in {"complete", "lacking", "shallow"})
            =>
            /\ T.status = "returned"
            /\ Len(T.met) = Len(qs)
            /\ \A k \in 1..Len(T.met) :
                  T.met[k] \in {"lacking", "shallow"} =>
                     \E e \in 1..Len(errorfile[b].lines) : errorfile[b].lines[e] = qs[k]

\* C16: in step_two the sleep of line 331 comes between the API call of a
\* query and the API call of the next one, whatever met the earlier query.
C16_DelayAfterEveryQuery ==
    \A b \in Bs :
        \A k \in 1..(Len(two_log[b].met) - 1) : two_log[b].naps[k]

(***************************************************************************)
(* Properties of main                                                      *)
(***************************************************************************)
OneEnded(b) == one_log[b].status \in {"returned", "skipped"}
TwoEnded(b) == two_log[b].status \in {"noop", "returned"}

\* Every step_one call comes before the first step_two call, and in each
\* stage the buckets are taken one at a time in the order of the sweep.
StagesInOrder ==
    /\ \A b, c \in Bs : two_log[b].status # "none" => OneEnded(c)
    /\ \A b, c \in Bs :
          b < c => /\ one_log[c].status # "none" => OneEnded(b)
                   /\ two_log[c].status # "none" => TwoEnded(b)
    /\ pc = "one" => one_log[bidx].status = "running"
    /\ pc = "two" => two_log[bidx].status = "running"

\* C11: every step_one call of every bucket comes before the first
\* step_two call, both stages take the buckets one at a time in the same
\* order, and a process that is not killed reaches step_two for every
\* bucket whatever the fetches and the items of stage 1 did.
C11_StageOrdering ==
    /\ []StagesInOrder
    /\ (<>(pc = "killed") \/ <>(pc = "exit" /\ \A b \in Bs : TwoEnded(b)))

\* Stage 2 reached for the second bucket after a stage 1 in which a listing
\* fetch failed for one bucket and an item raised in the other.
C11_Witness ==
    /\ pc = "exit"
    /\ \A b \in Bs : TwoEnded(b)
    /\ \E b \in Bs : one_log[b].status = "skipped"
    /\ \E b \in Bs : /\ one_log[b].status = "returned"
                     /\ Len(one_log[b].soups) = 2
                     /\ one_log[b].soups[2] = "soup"
                     /\ site[b].detail[2] = PageBadTable

====
